---------------------------- MODULE Spec2Model ----------------------------
(***************************************************************************)
(* A model of the web3-rpc client: the wrappers of src/src/web3.rs build a *)
(* JSON-RPC request, Client::post (src/src/client.rs) sends it with one    *)
(* HTTP POST, Client::handler classifies the response, and                 *)
(* Web3::parse_json decodes a success body into the typed envelope.        *)
(*                                                                         *)
(* Text is a sequence of one-character strings, so that the substring      *)
(* search of the handler and the JSON reader work on the characters of the *)
(* body.  A JSON value is a record [t |-> tag, v |-> payload].             *)
(***************************************************************************)
EXTENDS Integers, Sequences, FiniteSets, TLC

(***************************************************************************)
(* Characters and text.                                                    *)
(***************************************************************************)

\* The printable ASCII characters, code points 32..126, in order (the grave
\* accent, code 96, is written <GRAVE>).
Ascii ==
  << " ","!","\"","#","$","%","&","'","(",")","*","+",",","-",".","/",
     "0","1","2","3","4","5","6","7","8","9",":",";","<","=",">","?",
     "@","A","B","C","D","E","F","G","H","I","J","K","L","M","N","O",
     "P","Q","R","S","T","U","V","W","X","Y","Z","[","\\","]","^","_",
     "<GRAVE>","a","b","c","d","e","f","g","h","i","j","k","l","m","n","o",
     "p","q","r","s","t","u","v","w","x","y","z","{","|","}","~" >>

\* The character at position i of text, or the end-of-input mark.
At(text, i) == IF i >= 1 /\ i <= Len(text) THEN text[i] ELSE "EOF"

Digits == {"0","1","2","3","4","5","6","7","8","9"}

Whitespace == {" ", "\n", "\t", "\r"}

DigitVal(c) == CHOOSE d \in 0..9 : Ascii[17 + d] = c

HexDigits == Digits \cup {"a","b","c","d","e","f","A","B","C","D","E","F"}

HexVal(c) ==
  IF c \in Digits THEN DigitVal(c)
  ELSE IF c \in {"a","A"} THEN 10
  ELSE IF c \in {"b","B"} THEN 11
  ELSE IF c \in {"c","C"} THEN 12
  ELSE IF c \in {"d","D"} THEN 13
  ELSE IF c \in {"e","E"} THEN 14
  ELSE 15

\* The character of a \uXXXX escape; code points outside printable ASCII
\* are all read as one character that no other text contains.
CharOf(code) == IF code >= 32 /\ code <= 126 THEN Ascii[code - 31] ELSE "<U>"

\* str::find(pat) != None: pat occurs in text as a contiguous substring.
Contains(text, pat) ==
  \E i \in 1..(Len(text) - Len(pat) + 1) : SubSeq(text, i, i + Len(pat) - 1) = pat

RECURSIVE NatToChars(_)
NatToChars(n) ==
  IF n < 10 THEN << Ascii[17 + n] >>
  ELSE NatToChars(n \div 10) \o << Ascii[17 + (n % 10)] >>

IntToChars(n) == IF n < 0 THEN << "-" >> \o NatToChars(0 - n) ELSE NatToChars(n)

(***************************************************************************)
(* JSON values.                                                            *)
(***************************************************************************)

JStr(s)  == [t |-> "str",  v |-> s]
JNum(n)  == [t |-> "num",  v |-> n]
JBool(b) == [t |-> "bool", v |-> b]
JNull    == [t |-> "null", v |-> << >>]
JArr(es) == [t |-> "arr",  v |-> es]
\* An object is the sequence of its members << key, value >>, in document order.
JObj(ms) == [t |-> "obj",  v |-> ms]

(***************************************************************************)
(* Writing JSON text.  The style "compact" is serde_json's own output,     *)
(* which reqwest's .json(&payload) puts on the wire; "spaced" and          *)
(* "escaped" are two other encodings of the same document that a server    *)
(* may answer with: a space after every ':' and ',', and every letter e    *)
(* of a string written as the escape backslash-u 0065.                     *)
(***************************************************************************)

EscapeChar(c, style) ==
  IF c = "\"" THEN << "\\", "\"" >>
  ELSE IF c = "\\" THEN << "\\", "\\" >>
  ELSE IF c = "\n" THEN << "\\", "n" >>
  ELSE IF c = "\t" THEN << "\\", "t" >>
  ELSE IF c = "\r" THEN << "\\", "r" >>
  ELSE IF c = "e" /\ style = "escaped" THEN << "\\", "u", "0", "0", "6", "5" >>
  ELSE << c >>

RECURSIVE EscapeChars(_, _)
EscapeChars(s, style) ==
  IF s = << >> THEN << >>
  ELSE EscapeChar(Head(s), style) \o EscapeChars(Tail(s), style)

Quote(s, style) == << "\"" >> \o EscapeChars(s, style) \o << "\"" >>

Sep(c, style) == IF style = "spaced" THEN << c, " " >> ELSE << c >>

RECURSIVE Serialize(_, _)
RECURSIVE SerializeElems(_, _)
RECURSIVE SerializeMembers(_, _)
Serialize(val, style) ==
  CASE val.t = "str"  -> Quote(val.v, style)
    [] val.t = "num"  -> IntToChars(val.v)
    [] val.t = "bool" -> IF val.v THEN << "t","r","u","e" >> ELSE << "f","a","l","s","e" >>
    [] val.t = "null" -> << "n","u","l","l" >>
    [] val.t = "arr"  -> << "[" >> \o SerializeElems(val.v, style) \o << "]" >>
    [] val.t = "obj"  -> << "{" >> \o SerializeMembers(val.v, style) \o << "}" >>

SerializeElems(es, style) ==
  IF es = << >> THEN << >>
  ELSE Serialize(Head(es), style)
       \o (IF Len(es) > 1 THEN Sep(",", style) ELSE << >>)
       \o SerializeElems(Tail(es), style)

SerializeMembers(ms, style) ==
  IF ms = << >> THEN << >>
  ELSE Quote(Head(ms)[1], style) \o Sep(":", style) \o Serialize(Head(ms)[2], style)
       \o (IF Len(ms) > 1 THEN Sep(",", style) ELSE << >>)
       \o SerializeMembers(Tail(ms), style)


(***************************************************************************)
(* Reading JSON text into a typed value, as serde_json does it: a single   *)
(* pass over the text, driven by the type expected at each place.  The     *)
(* type "Value" accepts any JSON value (serde_json::Value, and the values  *)
(* of unknown fields, which a derived struct skips).  Every failure        *)
(* carries the path of the place being read when it arose: the keys and    *)
(* indices from the root, as serde_path_to_error tracks them.              *)
(***************************************************************************)

K_jsonrpc == <<"j","s","o","n","r","p","c">>
K_id == <<"i","d">>
K_result == <<"r","e","s","u","l","t">>
K_error == <<"e","r","r","o","r">>
K_code == <<"c","o","d","e">>
K_message == <<"m","e","s","s","a","g","e">>
K_data == <<"d","a","t","a">>
K_method == <<"m","e","t","h","o","d">>
K_params == <<"p","a","r","a","m","s">>

\* The structs of the crate's model module and their fields, in order.
\* JsonRpcResult<T> is { jsonrpc, id, result: T }; JsonRpcError<T> wraps the
\* fault { code, message, data: Option<T> } in its field "error".
StructFields(ty) ==
  CASE ty = "JsonRpcResult<String>" ->
         << << K_id, "String" >>, << K_jsonrpc, "String" >>, << K_result, "String" >> >>
    [] ty = "JsonRpcResult<bool>" ->
         << << K_id, "String" >>, << K_jsonrpc, "String" >>, << K_result, "bool" >> >>
    [] ty = "JsonRpcResult<i64>" ->
         << << K_id, "String" >>, << K_jsonrpc, "String" >>, << K_result, "i64" >> >>
    [] ty = "JsonRpcResult<Vec<String>>" ->
         << << K_id, "String" >>, << K_jsonrpc, "String" >>, << K_result, "Vec<String>" >> >>
    [] ty = "JsonRpcError<HashMap<String,String>>" ->
         << << K_error, "RpcFault<HashMap<String,String>>" >> >>
    [] ty = "RpcFault<HashMap<String,String>>" ->
         << << K_code, "i64" >>, << K_message, "String" >>,
            << K_data, "Option<HashMap<String,String>>" >> >>
    [] OTHER -> << >>

StructTypes ==
  { "JsonRpcResult<String>", "JsonRpcResult<bool>", "JsonRpcResult<i64>",
    "JsonRpcResult<Vec<String>>", "JsonRpcError<HashMap<String,String>>",
    "RpcFault<HashMap<String,String>>" }

OptionTypes == { "Option<HashMap<String,String>>" }

OptionInner(ty) == "HashMap<String,String>"

\* The index of the field named key among the fields of struct ty, or 0.
FieldIndex(ty, key) ==
  LET fs == StructFields(ty)
  IN  IF \E k \in 1..Len(fs) : fs[k][1] = key
      THEN CHOOSE k \in 1..Len(fs) : fs[k][1] = key
      ELSE 0

\* The type expected of the value of member key of an object read as ty.
MemberType(ty, key) ==
  IF ty \in StructTypes
  THEN IF FieldIndex(ty, key) = 0 THEN "Value" ELSE StructFields(ty)[FieldIndex(ty, key)][2]
  ELSE IF ty = "HashMap<String,String>" THEN "String"
  ELSE "Value"

\* The type expected of element k (from 1) of an array read as ty.
ElemType(ty, k) ==
  IF ty \in StructTypes THEN StructFields(ty)[k][2]
  ELSE IF ty = "Vec<String>" THEN "String"
  ELSE "Value"

AcceptsObject(ty) == ty \in StructTypes \cup { "HashMap<String,String>", "Value" }
AcceptsArray(ty)  == ty \in StructTypes \cup { "Vec<String>", "Value" }

ROk(val, pos) == [ok |-> TRUE,  val |-> val,   pos |-> pos, path |-> << >>]
RErr(path)    == [ok |-> FALSE, val |-> JNull, pos |-> 0,   path |-> path]

JNone     == [t |-> "none", v |-> << >>]
JSome(x)  == [t |-> "some", v |-> x]
JStruct(fs) == [t |-> "struct", v |-> fs]
JFloat(s) == [t |-> "float", v |-> s]

\* The path segment of element k (from 0) of an array: [k].
Idx(k) == << "[" >> \o NatToChars(k) \o << "]" >>

RECURSIVE SkipWs(_, _)
SkipWs(text, i) == IF At(text, i) \in Whitespace THEN SkipWs(text, i + 1) ELSE i

\* text holds word at position i.
HasWord(text, i, word) ==
  /\ i + Len(word) - 1 <= Len(text)
  /\ SubSeq(text, i, i + Len(word) - 1) = word

\* The position after the run of digits that starts at i.
RECURSIVE ReadDigits(_, _)
ReadDigits(text, i) == IF At(text, i) \in Digits THEN ReadDigits(text, i + 1) ELSE i

\* The number written by the digits text[i..j-1].
RECURSIVE DigitsValue(_, _, _)
DigitsValue(text, i, j) ==
  IF j <= i THEN 0 ELSE 10 * DigitsValue(text, i, j - 1) + DigitVal(text[j - 1])

\* A string's characters from position i, just after its opening quote.
RECURSIVE ReadString(_, _, _)
ReadString(text, i, acc) ==
  LET c == At(text, i)
      e == At(text, i + 1)
  IN  IF c = "EOF" \/ c \in {"\n", "\t", "\r"} THEN RErr(<< >>)
      ELSE IF c = "\"" THEN ROk(acc, i + 1)
      ELSE IF c # "\\" THEN ReadString(text, i + 1, Append(acc, c))
      ELSE IF e \in {"\"", "\\", "/"} THEN ReadString(text, i + 2, Append(acc, e))
      ELSE IF e = "n" THEN ReadString(text, i + 2, Append(acc, "\n"))
      ELSE IF e = "t" THEN ReadString(text, i + 2, Append(acc, "\t"))
      ELSE IF e = "r" THEN ReadString(text, i + 2, Append(acc, "\r"))
      ELSE IF e = "b" THEN ReadString(text, i + 2, Append(acc, "<BS>"))
      ELSE IF e = "f" THEN ReadString(text, i + 2, Append(acc, "<FF>"))
      ELSE IF e = "u" /\ \A k \in 2..5 : At(text, i + k) \in HexDigits
           THEN ReadString(text, i + 6,
                  Append(acc, CharOf(4096 * HexVal(text[i + 2]) + 256 * HexVal(text[i + 3])
                                     + 16 * HexVal(text[i + 4]) + HexVal(text[i + 5]))))
      ELSE RErr(<< >>)

\* A number from position i: -? (0 | [1-9][0-9]*) (. [0-9]+)? ([eE] [+-]? [0-9]+)?
ReadNumber(text, i) ==
  LET s       == IF At(text, i) = "-" THEN i + 1 ELSE i
      intEnd  == IF At(text, s) = "0" THEN s + 1 ELSE ReadDigits(text, s)
      hasFrac == At(text, intEnd) = "."
      fracEnd == IF hasFrac THEN ReadDigits(text, intEnd + 1) ELSE intEnd
      hasExp  == At(text, fracEnd) \in {"e", "E"}
      expFrom == IF At(text, fracEnd + 1) \in {"+", "-"} THEN fracEnd + 2 ELSE fracEnd + 1
      expEnd  == IF hasExp THEN ReadDigits(text, expFrom) ELSE fracEnd
      mag     == DigitsValue(text, s, intEnd)
  IN  IF At(text, s) \notin Digits THEN RErr(<< >>)
      ELSE IF At(text, s) = "0" /\ At(text, s + 1) \in Digits THEN RErr(<< >>)
      ELSE IF hasFrac /\ fracEnd = intEnd + 1 THEN RErr(<< >>)
      ELSE IF hasExp /\ expEnd = expFrom THEN RErr(<< >>)
      ELSE IF hasFrac \/ hasExp THEN ROk(JFloat(SubSeq(text, i, expEnd - 1)), expEnd)
      ELSE ROk(JNum(IF s = i THEN mag ELSE 0 - mag), expEnd)

RECURSIVE Deser(_, _, _, _)
RECURSIVE ReadMembers(_, _, _, _, _)
RECURSIVE ReadElems(_, _, _, _, _)

\* The struct value of the members read: every field present, an absent
\* Option field None, an absent field of another type an error.
FinishStruct(ty, acc, pos, path) ==
  LET fs == StructFields(ty)
      Got(k) == \E m \in 1..Len(acc) : acc[m][1] = fs[k][1]
      Val(k) == IF Got(k)
                THEN acc[CHOOSE m \in 1..Len(acc) : acc[m][1] = fs[k][1]][2]
                ELSE JNone
  IN  IF \E k \in 1..Len(fs) : ~Got(k) /\ fs[k][2] \notin OptionTypes
      THEN RErr(path)
      ELSE ROk(JStruct([k \in 1..Len(fs) |-> Val(k)]), pos)

\* The members of an object from position i (after '{' or after a ','),
\* acc the members read so far.
ReadMembers(ty, text, i, path, acc) ==
  LET j   == SkipWs(text, i)
      key == ReadString(text, j + 1, << >>)
      k   == SkipWs(text, key.pos)
      dup == ty \in StructTypes /\ FieldIndex(ty, key.val) # 0
             /\ \E m \in 1..Len(acc) : acc[m][1] = key.val
      r   == Deser(MemberType(ty, key.val), text, k + 1, Append(path, key.val))
      m   == SkipWs(text, r.pos)
      all == IF ty \in StructTypes /\ FieldIndex(ty, key.val) = 0
             THEN acc ELSE Append(acc, << key.val, r.val >>)
      Done(a, pos) == IF ty \in StructTypes THEN FinishStruct(ty, a, pos, path)
                      ELSE ROk(JObj(a), pos)
  IN  IF At(text, j) = "}" /\ acc = << >> /\ At(text, i - 1) = "{" THEN Done(acc, j + 1)
      ELSE IF At(text, j) # "\"" THEN RErr(path)
      ELSE IF ~key.ok THEN RErr(path)
      ELSE IF At(text, k) # ":" THEN RErr(path)
      ELSE IF dup THEN RErr(path)
      ELSE IF ~r.ok THEN r
      ELSE IF At(text, m) = "," THEN ReadMembers(ty, text, m + 1, path, all)
      ELSE IF At(text, m) = "}" THEN Done(all, m + 1)
      ELSE RErr(path)

\* The elements of an array from position i (after '[' or after a ','),
\* acc the elements read so far.  A struct read from an array takes its
\* fields in order and needs every one of them.
ReadElems(ty, text, i, path, acc) ==
  LET j == SkipWs(text, i)
      n == Len(StructFields(ty))
      r == Deser(ElemType(ty, Len(acc) + 1), text, j, Append(path, Idx(Len(acc))))
      m == SkipWs(text, r.pos)
      all == Append(acc, r.val)
      Done(a, pos) == IF ty \notin StructTypes THEN ROk(JArr(a), pos)
                      ELSE IF Len(a) < n THEN RErr(path)
                      ELSE ROk(JStruct(a), pos)
  IN  IF At(text, j) = "]" /\ acc = << >> /\ At(text, i - 1) = "[" THEN Done(acc, j + 1)
      ELSE IF ty \in StructTypes /\ Len(acc) >= n THEN RErr(path)
      ELSE IF ~r.ok THEN r
      ELSE IF At(text, m) = "," THEN ReadElems(ty, text, m + 1, path, all)
      ELSE IF At(text, m) = "]" THEN Done(all, m + 1)
      ELSE RErr(path)

\* The value of type ty written from position i0 of text, read at path.
Deser(ty, text, i0, path) ==
  LET i == SkipWs(text, i0)
      c == At(text, i)
      str == ReadString(text, i + 1, << >>)
      num == ReadNumber(text, i)
      in  == Deser(OptionInner(ty), text, i, path)
  IN  IF ty \in OptionTypes
      THEN IF c = "n"
           THEN IF HasWord(text, i, << "n","u","l","l" >>) THEN ROk(JNone, i + 4)
                ELSE RErr(path)
           ELSE IF in.ok THEN ROk(JSome(in.val), in.pos) ELSE in
      ELSE IF c = "\""
      THEN IF str.ok /\ ty \in {"String", "Value"} THEN ROk(JStr(str.val), str.pos)
           ELSE RErr(path)
      ELSE IF c \in Digits \cup {"-"}
      THEN IF num.ok /\ (ty = "Value" \/ (ty = "i64" /\ num.val.t = "num")) THEN num
           ELSE RErr(path)
      ELSE IF c = "t"
      THEN IF HasWord(text, i, << "t","r","u","e" >>) /\ ty \in {"bool", "Value"}
           THEN ROk(JBool(TRUE), i + 4) ELSE RErr(path)
      ELSE IF c = "f"
      THEN IF HasWord(text, i, << "f","a","l","s","e" >>) /\ ty \in {"bool", "Value"}
           THEN ROk(JBool(FALSE), i + 5) ELSE RErr(path)
      ELSE IF c = "n"
      THEN IF HasWord(text, i, << "n","u","l","l" >>) /\ ty = "Value"
           THEN ROk(JNull, i + 4) ELSE RErr(path)
      ELSE IF c = "{"
      THEN IF AcceptsObject(ty) THEN ReadMembers(ty, text, i + 1, path, << >>)
           ELSE RErr(path)
      ELSE IF c = "["
      THEN IF AcceptsArray(ty) THEN ReadElems(ty, text, i + 1, path, << >>)
           ELSE RErr(path)
      ELSE RErr(path)

\* serde_json::from_str::<ty>(text): the whole text is one value of type
\* ty, with nothing but whitespace after it.  The error has no path.
End(text, r) ==
  IF r.ok /\ SkipWs(text, r.pos) > Len(text) THEN [ok |-> TRUE, val |-> r.val]
  ELSE [ok |-> FALSE, val |-> JNull]

FromStr(ty, text) == End(text, Deser(ty, text, 1, << >>))

\* serde_json::from_str without the end check: the same reading, with no
\* track of the path kept.
DeserializeUntracked(ty, text) == [Deser(ty, text, 1, << >>) EXCEPT !.path = << >>]

\* serde_path_to_error::deserialize over serde_json::Deserializer::from_str:
\* one value of type ty from the start of text (what follows it is not
\* read), or the path at which reading failed.
PathToErrorDeserialize(ty, text) == Deser(ty, text, 1, << >>)

(***************************************************************************)
(* The wrappers of Web3, one entry per function of src/src/web3.rs: the    *)
(* method name and the request id it writes, the kinds of its arguments    *)
(* ("str" a &str, "tag" an Option<Tag>, "bool", "value" a                  *)
(* serde_json::Value), how params is built of them, and the type T of the  *)
(* JsonRpcResult<T> it decodes into.                                       *)
(***************************************************************************)

Wrappers ==
  <<
    [ name |-> "web3_client_version", args |-> <<  >>, shape |-> "positional", rtype |-> "String",
      \* "net_version", "101"
      method |-> <<"n","e","t","_","v","e","r","s","i","o","n">>,
      id |-> <<"1","0","1">> ],
    [ name |-> "web3_sha3", args |-> << "str" >>, shape |-> "positional", rtype |-> "String",
      \* "web3_sha3", "102"
      method |-> <<"w","e","b","3","_","s","h","a","3">>,
      id |-> <<"1","0","2">> ],
    [ name |-> "net_version", args |-> <<  >>, shape |-> "positional", rtype |-> "String",
      \* "net_version", "401"
      method |-> <<"n","e","t","_","v","e","r","s","i","o","n">>,
      id |-> <<"4","0","1">> ],
    [ name |-> "net_listening", args |-> <<  >>, shape |-> "positional", rtype |-> "bool",
      \* "net_listening", "402"
      method |-> <<"n","e","t","_","l","i","s","t","e","n","i","n","g">>,
      id |-> <<"4","0","2">> ],
    [ name |-> "net_peer_count", args |-> <<  >>, shape |-> "positional", rtype |-> "i64",
      \* "net_peerCount", "303"
      method |-> <<"n","e","t","_","p","e","e","r","C","o","u","n","t">>,
      id |-> <<"3","0","3">> ],
    [ name |-> "eth_protocol_version", args |-> <<  >>, shape |-> "positional", rtype |-> "String",
      \* "eth_protocolVersion", "304"
      method |-> <<"e","t","h","_","p","r","o","t","o","c","o","l","V","e","r","s","i","o","n">>,
      id |-> <<"3","0","4">> ],
    [ name |-> "eth_syncing", args |-> <<  >>, shape |-> "positional", rtype |-> "bool",
      \* "eth_syncing", "305"
      method |-> <<"e","t","h","_","s","y","n","c","i","n","g">>,
      id |-> <<"3","0","5">> ],
    [ name |-> "eth_coinbase", args |-> <<  >>, shape |-> "positional", rtype |-> "String",
      \* "eth_coinbase", "306"
      method |-> <<"e","t","h","_","c","o","i","n","b","a","s","e">>,
      id |-> <<"3","0","6">> ],
    [ name |-> "eth_mining", args |-> <<  >>, shape |-> "positional", rtype |-> "bool",
      \* "eth_mining", "307"
      method |-> <<"e","t","h","_","m","i","n","i","n","g">>,
      id |-> <<"3","0","7">> ],
    [ name |-> "eth_hashrate", args |-> <<  >>, shape |-> "positional", rtype |-> "String",
      \* "eth_hashrate", "308"
      method |-> <<"e","t","h","_","h","a","s","h","r","a","t","e">>,
      id |-> <<"3","0","8">> ],
    [ name |-> "eth_gas_price", args |-> <<  >>, shape |-> "positional", rtype |-> "String",
      \* "eth_gasPrice", "309"
      method |-> <<"e","t","h","_","g","a","s","P","r","i","c","e">>,
      id |-> <<"3","0","9">> ],
    [ name |-> "eth_accounts", args |-> <<  >>, shape |-> "positional", rtype |-> "Vec<String>",
      \* "eth_accounts", "310"
      method |-> <<"e","t","h","_","a","c","c","o","u","n","t","s">>,
      id |-> <<"3","1","0">> ],
    [ name |-> "eth_get_balance", args |-> << "str", "tag" >>, shape |-> "positional", rtype |-> "String",
      \* "eth_getBalance", "311"
      method |-> <<"e","t","h","_","g","e","t","B","a","l","a","n","c","e">>,
      id |-> <<"3","1","1">> ],
    [ name |-> "eth_get_storage_at", args |-> << "str", "str", "tag" >>, shape |-> "positional", rtype |-> "String",
      \* "eth_getStorageAt", "312"
      method |-> <<"e","t","h","_","g","e","t","S","t","o","r","a","g","e","A","t">>,
      id |-> <<"3","1","2">> ],
    [ name |-> "eth_get_transaction_count", args |-> << "str", "tag" >>, shape |-> "positional", rtype |-> "String",
      \* "eth_getTransactionCount", "313"
      method |-> <<"e","t","h","_","g","e","t","T","r","a","n","s","a","c","t","i","o","n","C","o","u","n","t">>,
      id |-> <<"3","1","3">> ],
    [ name |-> "eth_get_block_transaction_count_by_hash", args |-> << "str" >>, shape |-> "positional", rtype |-> "String",
      \* "eth_getBlockTransactionCountByHash", "314"
      method |-> <<"e","t","h","_","g","e","t","B","l","o","c","k","T","r","a","n","s","a","c","t","i","o","n","C","o","u","n","t","B","y","H","a","s","h">>,
      id |-> <<"3","1","4">> ],
    [ name |-> "eth_get_block_transaction_count_by_number", args |-> << "str" >>, shape |-> "positional", rtype |-> "String",
      \* "eth_getBlockTransactionCountByNumber", "315"
      method |-> <<"e","t","h","_","g","e","t","B","l","o","c","k","T","r","a","n","s","a","c","t","i","o","n","C","o","u","n","t","B","y","N","u","m","b","e","r">>,
      id |-> <<"3","1","5">> ],
    [ name |-> "eth_get_uncle_count_by_block_hash", args |-> << "str" >>, shape |-> "positional", rtype |-> "String",
      \* "eth_getUncleCountByBlockHash", "316"
      method |-> <<"e","t","h","_","g","e","t","U","n","c","l","e","C","o","u","n","t","B","y","B","l","o","c","k","H","a","s","h">>,
      id |-> <<"3","1","6">> ],
    [ name |-> "eth_get_uncle_count_by_block_number", args |-> << "str" >>, shape |-> "positional", rtype |-> "String",
      \* "eth_getUncleCountByBlockNumber", "317"
      method |-> <<"e","t","h","_","g","e","t","U","n","c","l","e","C","o","u","n","t","B","y","B","l","o","c","k","N","u","m","b","e","r">>,
      id |-> <<"3","1","7">> ],
    [ name |-> "eth_get_code", args |-> << "str", "tag" >>, shape |-> "positional", rtype |-> "String",
      \* "eth_getCode", "318"
      method |-> <<"e","t","h","_","g","e","t","C","o","d","e">>,
      id |-> <<"3","1","8">> ],
    [ name |-> "eth_sign", args |-> << "str", "str" >>, shape |-> "positional", rtype |-> "String",
      \* "eth_sign", "319"
      method |-> <<"e","t","h","_","s","i","g","n">>,
      id |-> <<"3","1","9">> ],
    [ name |-> "eth_send_transaction", args |-> << "str", "str", "str", "str", "str", "str" >>, shape |-> "transaction", rtype |-> "String",
      \* "eth_sendTransaction", "320"
      method |-> <<"e","t","h","_","s","e","n","d","T","r","a","n","s","a","c","t","i","o","n">>,
      id |-> <<"3","2","0">> ],
    [ name |-> "eth_send_raw_transaction", args |-> << "str" >>, shape |-> "positional", rtype |-> "String",
      \* "eth_sendRawTransaction", "321"
      method |-> <<"e","t","h","_","s","e","n","d","R","a","w","T","r","a","n","s","a","c","t","i","o","n">>,
      id |-> <<"3","2","1">> ],
    [ name |-> "eth_call", args |-> << "value" >>, shape |-> "positional", rtype |-> "String",
      \* "eth_call", "322"
      method |-> <<"e","t","h","_","c","a","l","l">>,
      id |-> <<"3","2","2">> ],
    [ name |-> "eth_estimate_gas", args |-> << "value" >>, shape |-> "positional", rtype |-> "String",
      \* "eth_estimateGas", "323"
      method |-> <<"e","t","h","_","e","s","t","i","m","a","t","e","G","a","s">>,
      id |-> <<"3","2","3">> ],
    [ name |-> "eth_get_block_by_hash", args |-> << "str", "bool" >>, shape |-> "positional", rtype |-> "Block",
      \* "eth_getBlockByHash", "324"
      method |-> <<"e","t","h","_","g","e","t","B","l","o","c","k","B","y","H","a","s","h">>,
      id |-> <<"3","2","4">> ],
    [ name |-> "eth_get_block_by_number", args |-> << "str", "bool" >>, shape |-> "positional", rtype |-> "Block",
      \* "eth_getBlockByNumber", "325"
      method |-> <<"e","t","h","_","g","e","t","B","l","o","c","k","B","y","N","u","m","b","e","r">>,
      id |-> <<"3","2","5">> ],
    [ name |-> "eth_get_transaction_by_hash", args |-> << "str" >>, shape |-> "positional", rtype |-> "Transaction",
      \* "eth_getTransactionByHash", "326"
      method |-> <<"e","t","h","_","g","e","t","T","r","a","n","s","a","c","t","i","o","n","B","y","H","a","s","h">>,
      id |-> <<"3","2","6">> ],
    [ name |-> "eth_block_number", args |-> <<  >>, shape |-> "positional", rtype |-> "String",
      \* "eth_blockNumber", "327"
      method |-> <<"e","t","h","_","b","l","o","c","k","N","u","m","b","e","r">>,
      id |-> <<"3","2","7">> ],
    [ name |-> "eth_get_transaction_receipt", args |-> << "str" >>, shape |-> "positional", rtype |-> "Receipt",
      \* "eth_getTransactionReceipt", "328"
      method |-> <<"e","t","h","_","g","e","t","T","r","a","n","s","a","c","t","i","o","n","R","e","c","e","i","p","t">>,
      id |-> <<"3","2","8">> ],
    [ name |-> "eth_get_transaction_by_block_hash_and_index", args |-> << "str", "str" >>, shape |-> "positional", rtype |-> "Transaction",
      \* "eth_getTransactionByBlockHashAndIndex", "329"
      method |-> <<"e","t","h","_","g","e","t","T","r","a","n","s","a","c","t","i","o","n","B","y","B","l","o","c","k","H","a","s","h","A","n","d","I","n","d","e","x">>,
      id |-> <<"3","2","9">> ],
    [ name |-> "eth_get_transaction_by_block_number_and_index", args |-> << "str", "str" >>, shape |-> "positional", rtype |-> "Transaction",
      \* "eth_getTransactionByBlockNumberAndIndex", "330"
      method |-> <<"e","t","h","_","g","e","t","T","r","a","n","s","a","c","t","i","o","n","B","y","B","l","o","c","k","N","u","m","b","e","r","A","n","d","I","n","d","e","x">>,
      id |-> <<"3","3","0">> ],
    [ name |-> "eth_get_uncle_by_block_hash_and_index", args |-> << "str", "str" >>, shape |-> "positional", rtype |-> "Block",
      \* "eth_getUncleByBlockHashAndIndex", "331"
      method |-> <<"e","t","h","_","g","e","t","U","n","c","l","e","B","y","B","l","o","c","k","H","a","s","h","A","n","d","I","n","d","e","x">>,
      id |-> <<"3","3","1">> ],
    [ name |-> "eth_get_uncle_by_block_number_and_index", args |-> << "str", "str" >>, shape |-> "positional", rtype |-> "Block",
      \* "eth_getUncleByBlockNumberAndIndex", "332"
      method |-> <<"e","t","h","_","g","e","t","U","n","c","l","e","B","y","B","l","o","c","k","N","u","m","b","e","r","A","n","d","I","n","d","e","x">>,
      id |-> <<"3","3","2">> ],
    [ name |-> "eth_get_compilers", args |-> <<  >>, shape |-> "positional", rtype |-> "Vec<String>",
      \* "eth_getCompilers", "333"
      method |-> <<"e","t","h","_","g","e","t","C","o","m","p","i","l","e","r","s">>,
      id |-> <<"3","3","3">> ]
  >>

WrapperNames == { Wrappers[k].name : k \in 1..Len(Wrappers) }

\* The entry of the wrapper called name.
W(name) == Wrappers[CHOOSE k \in 1..Len(Wrappers) : Wrappers[k].name = name]

\* The identifier of the wrapper function called name, as it is written in
\* impl Web3.
FnName(name) ==
  CASE name = "web3_client_version" ->
         <<"w","e","b","3","_","c","l","i","e","n","t","_","v","e","r","s","i","o","n">>
    [] name = "web3_sha3" ->
         <<"w","e","b","3","_","s","h","a","3">>
    [] name = "net_version" ->
         <<"n","e","t","_","v","e","r","s","i","o","n">>
    [] name = "net_listening" ->
         <<"n","e","t","_","l","i","s","t","e","n","i","n","g">>
    [] name = "net_peer_count" ->
         <<"n","e","t","_","p","e","e","r","_","c","o","u","n","t">>
    [] name = "eth_protocol_version" ->
         <<"e","t","h","_","p","r","o","t","o","c","o","l","_","v","e","r","s","i","o","n">>
    [] name = "eth_syncing" ->
         <<"e","t","h","_","s","y","n","c","i","n","g">>
    [] name = "eth_coinbase" ->
         <<"e","t","h","_","c","o","i","n","b","a","s","e">>
    [] name = "eth_mining" ->
         <<"e","t","h","_","m","i","n","i","n","g">>
    [] name = "eth_hashrate" ->
         <<"e","t","h","_","h","a","s","h","r","a","t","e">>
    [] name = "eth_gas_price" ->
         <<"e","t","h","_","g","a","s","_","p","r","i","c","e">>
    [] name = "eth_accounts" ->
         <<"e","t","h","_","a","c","c","o","u","n","t","s">>
    [] name = "eth_get_balance" ->
         <<"e","t","h","_","g","e","t","_","b","a","l","a","n","c","e">>
    [] name = "eth_get_storage_at" ->
         <<"e","t","h","_","g","e","t","_","s","t","o","r","a","g","e","_","a","t">>
    [] name = "eth_get_transaction_count" ->
         <<"e","t","h","_","g","e","t","_","t","r","a","n","s","a","c","t","i","o","n","_","c","o","u","n","t">>
    [] name = "eth_get_block_transaction_count_by_hash" ->
         <<"e","t","h","_","g","e","t","_","b","l","o","c","k","_","t","r","a","n","s","a","c","t","i","o","n","_","c","o","u","n","t","_","b","y","_","h","a","s","h">>
    [] name = "eth_get_block_transaction_count_by_number" ->
         <<"e","t","h","_","g","e","t","_","b","l","o","c","k","_","t","r","a","n","s","a","c","t","i","o","n","_","c","o","u","n","t","_","b","y","_","n","u","m","b","e","r">>
    [] name = "eth_get_uncle_count_by_block_hash" ->
         <<"e","t","h","_","g","e","t","_","u","n","c","l","e","_","c","o","u","n","t","_","b","y","_","b","l","o","c","k","_","h","a","s","h">>
    [] name = "eth_get_uncle_count_by_block_number" ->
         <<"e","t","h","_","g","e","t","_","u","n","c","l","e","_","c","o","u","n","t","_","b","y","_","b","l","o","c","k","_","n","u","m","b","e","r">>
    [] name = "eth_get_code" ->
         <<"e","t","h","_","g","e","t","_","c","o","d","e">>
    [] name = "eth_sign" ->
         <<"e","t","h","_","s","i","g","n">>
    [] name = "eth_send_transaction" ->
         <<"e","t","h","_","s","e","n","d","_","t","r","a","n","s","a","c","t","i","o","n">>
    [] name = "eth_send_raw_transaction" ->
         <<"e","t","h","_","s","e","n","d","_","r","a","w","_","t","r","a","n","s","a","c","t","i","o","n">>
    [] name = "eth_call" ->
         <<"e","t","h","_","c","a","l","l">>
    [] name = "eth_estimate_gas" ->
         <<"e","t","h","_","e","s","t","i","m","a","t","e","_","g","a","s">>
    [] name = "eth_get_block_by_hash" ->
         <<"e","t","h","_","g","e","t","_","b","l","o","c","k","_","b","y","_","h","a","s","h">>
    [] name = "eth_get_block_by_number" ->
         <<"e","t","h","_","g","e","t","_","b","l","o","c","k","_","b","y","_","n","u","m","b","e","r">>
    [] name = "eth_get_transaction_by_hash" ->
         <<"e","t","h","_","g","e","t","_","t","r","a","n","s","a","c","t","i","o","n","_","b","y","_","h","a","s","h">>
    [] name = "eth_block_number" ->
         <<"e","t","h","_","b","l","o","c","k","_","n","u","m","b","e","r">>
    [] name = "eth_get_transaction_receipt" ->
         <<"e","t","h","_","g","e","t","_","t","r","a","n","s","a","c","t","i","o","n","_","r","e","c","e","i","p","t">>
    [] name = "eth_get_transaction_by_block_hash_and_index" ->
         <<"e","t","h","_","g","e","t","_","t","r","a","n","s","a","c","t","i","o","n","_","b","y","_","b","l","o","c","k","_","h","a","s","h","_","a","n","d","_","i","n","d","e","x">>
    [] name = "eth_get_transaction_by_block_number_and_index" ->
         <<"e","t","h","_","g","e","t","_","t","r","a","n","s","a","c","t","i","o","n","_","b","y","_","b","l","o","c","k","_","n","u","m","b","e","r","_","a","n","d","_","i","n","d","e","x">>
    [] name = "eth_get_uncle_by_block_hash_and_index" ->
         <<"e","t","h","_","g","e","t","_","u","n","c","l","e","_","b","y","_","b","l","o","c","k","_","h","a","s","h","_","a","n","d","_","i","n","d","e","x">>
    [] name = "eth_get_uncle_by_block_number_and_index" ->
         <<"e","t","h","_","g","e","t","_","u","n","c","l","e","_","b","y","_","b","l","o","c","k","_","n","u","m","b","e","r","_","a","n","d","_","i","n","d","e","x">>
    [] name = "eth_get_compilers" ->
         <<"e","t","h","_","g","e","t","_","c","o","m","p","i","l","e","r","s">>

\* The result types whose definition the decoding below covers; Block,
\* Transaction and Receipt are structs of the model module.
DecodableTypes == { "String", "bool", "i64", "Vec<String>" }

\* The wrappers whose call is followed through to its typed result.
Callable == { n \in WrapperNames : W(n).rtype \in DecodableTypes }

\* JsonRpcResult<T> for the T of a wrapper.
EnvelopeType(rtype) ==
  CASE rtype = "String"      -> "JsonRpcResult<String>"
    [] rtype = "bool"        -> "JsonRpcResult<bool>"
    [] rtype = "i64"         -> "JsonRpcResult<i64>"
    [] rtype = "Vec<String>" -> "JsonRpcResult<Vec<String>>"

S_version == <<"2",".","0">>
S_latest == <<"l","a","t","e","s","t">>
K_from == <<"f","r","o","m">>
K_to == <<"t","o">>
K_gas == <<"g","a","s">>
K_gasPrice == <<"g","a","s","P","r","i","c","e">>
K_value == <<"v","a","l","u","e">>

\* String::from(tag): the JSON-RPC name of a block tag.
TagString(tag) == IF tag = "Latest" THEN S_latest ELSE << >>

\* The JSON value a wrapper writes for an argument a = [t |-> kind, v |-> value].
\* A tag argument is "None" or the name of a tag: the wrapper starts from
\* String::from(Tag::Latest) and replaces it when a tag is given.
ArgJson(kind, a) ==
  CASE kind = "str"   -> JStr(a.v)
    [] kind = "tag"   -> JStr(IF a.v = "None" THEN TagString("Latest") ELSE TagString(a.v))
    [] kind = "bool"  -> JBool(a.v)
    [] kind = "value" -> a.v

\* A params array with the arguments in the reverse order.
ParamsReversed(w, a) ==
  IF w.shape = "transaction"
  THEN << JObj(<< << K_from, JStr(a[1].v) >>, << K_to, JStr(a[2].v) >>,
                  << K_gas, JStr(a[3].v) >>, << K_gasPrice, JStr(a[4].v) >>,
                  << K_value, JStr(a[5].v) >>, << K_data, JStr(a[6].v) >> >>) >>
  ELSE [k \in 1..Len(w.args) |->
          ArgJson(w.args[Len(w.args) + 1 - k], a[Len(w.args) + 1 - k])]

\* The params array of wrapper w called with arguments a.
Params(w, a) ==
  IF w.shape = "transaction"
  THEN << JObj(<< << K_from, JStr(a[1].v) >>, << K_to, JStr(a[2].v) >>,
                  << K_gas, JStr(a[3].v) >>, << K_gasPrice, JStr(a[4].v) >>,
                  << K_value, JStr(a[5].v) >>, << K_data, JStr(a[6].v) >> >>) >>
  ELSE [k \in 1..Len(w.args) |-> ArgJson(w.args[k], a[k])]

\* json!({ "jsonrpc": "2.0", "method": ..., "params": [...], "id": ... }).
Payload(w, a) ==
  JObj(<< << K_jsonrpc, JStr(S_version) >>,
          << K_method,  JStr(w.method) >>,
          << K_params,  JArr(Params(w, a)) >>,
          << K_id,      JStr(w.id) >> >>)

\* The members of a serde_json Map are kept in the order of their keys
\* (the default, a BTreeMap) or in the order written (the crate feature
\* preserve_order); which one is a choice of the build.
KeyOrders == { "sorted", "written" }

CodePoint(c) == CHOOSE k \in 1..Len(Ascii) : Ascii[k] = c

RECURSIVE KeyLess(_, _)
KeyLess(a, b) ==
  IF b = << >> THEN FALSE
  ELSE IF a = << >> THEN TRUE
  ELSE IF Head(a) = Head(b) THEN KeyLess(Tail(a), Tail(b))
  ELSE CodePoint(Head(a)) < CodePoint(Head(b))

RECURSIVE InsertMember(_, _)
InsertMember(ms, m) ==
  IF ms = << >> THEN << m >>
  ELSE IF KeyLess(m[1], Head(ms)[1]) THEN << m >> \o ms
  ELSE << Head(ms) >> \o InsertMember(Tail(ms), m)

RECURSIVE SortMembers(_)
SortMembers(ms) ==
  IF ms = << >> THEN << >> ELSE InsertMember(SortMembers(Tail(ms)), Head(ms))

RECURSIVE MapOrder(_, _)
MapOrder(val, order) ==
  IF val.t = "arr" THEN JArr([k \in 1..Len(val.v) |-> MapOrder(val.v[k], order)])
  ELSE IF val.t = "obj"
  THEN LET ms == [k \in 1..Len(val.v) |-> << val.v[k][1], MapOrder(val.v[k][2], order) >>]
       IN  JObj(IF order = "sorted" THEN SortMembers(ms) ELSE ms)
  ELSE val

\* The request body that .json(&payload) puts on the wire.
WireBody(payload, order) == Serialize(MapOrder(payload, order), "compact")

(***************************************************************************)
(* The inputs: the arguments a caller passes and the responses a server    *)
(* gives.                                                                  *)
(***************************************************************************)

S_401 == <<"4","0","1">>
S_311 == <<"3","1","1">>
S_three == <<"3">>
S_four == <<"4">>
S_hex == <<"0","x","1","e">>
S_addr == <<"0","x","a","b","c">>
S_quoted == <<"a","\"","b">>
S_invalid == <<"i","n","v","a","l","i","d"," ","a","r","g","u","m","e","n","t"," ","0">>
S_reverted == <<"e","x","e","c","u","t","i","o","n"," ","r","e","v","e","r","t","e","d">>
S_reason == <<"r","e","a","s","o","n">>
S_boom == <<"b","o","o","m">>
S_extra == <<"e","x","t","r","a">>
S_revertData == <<"0","x","0","8","c","3">>
S_html == <<"<","h","t","m","l",">">>
S_x == <<"x">>
S_zero == <<"0","x","0">>

\* The values of an argument of each kind, each tagged with its kind.
ArgValues(kind) ==
  CASE kind = "str"   -> { [t |-> "str", v |-> S_addr], [t |-> "str", v |-> S_quoted] }
    [] kind = "tag"   -> { [t |-> "tag", v |-> "None"], [t |-> "tag", v |-> "Latest"] }
    [] kind = "bool"  -> { [t |-> "bool", v |-> TRUE], [t |-> "bool", v |-> FALSE] }
    [] kind = "value" -> { [t |-> "value", v |-> JNull],
                           [t |-> "value", v |-> JObj(<< << K_to, JStr(S_addr) >> >>)] }

\* The argument lists a wrapper with the given argument kinds is called with.
RECURSIVE ArgLists(_)
ArgLists(kinds) ==
  IF kinds = << >> THEN { << >> }
  ELSE { << a >> \o rest : a \in ArgValues(Head(kinds)), rest \in ArgLists(Tail(kinds)) }

\* A success envelope and an error envelope as a server writes them.
SuccessDoc(id, result) ==
  JObj(<< << K_jsonrpc, JStr(S_version) >>, << K_id, JStr(id) >>, << K_result, result >> >>)

ErrorDoc(id, fault) ==
  JObj(<< << K_jsonrpc, JStr(S_version) >>, << K_id, JStr(id) >>, << K_error, fault >> >>)

Fault(code, message) == JObj(<< << K_code, JNum(code) >>, << K_message, JStr(message) >> >>)

FaultWith(code, message, data) ==
  JObj(<< << K_code, JNum(code) >>, << K_message, JStr(message) >>, << K_data, data >> >>)

\* The results a server embeds in a success envelope.
Results ==
  { JStr(S_three), JStr(S_hex), JStr(K_error), JStr(S_quoted), JBool(TRUE), JNum(25), JNull,
    JArr(<< >>), JArr(<< JStr(S_addr) >>), JArr(<< JStr(S_addr), JNum(5) >>) }

\* Well-formed success envelopes.
SuccessDocs == { SuccessDoc(S_401, r) : r \in Results }

\* Envelopes that carry a result but are not of the shape { jsonrpc, id, result }.
OddSuccessDocs ==
  { JObj(<< << K_jsonrpc, JStr(S_version) >>, << K_result, JStr(S_three) >> >>),
    JObj(<< << K_jsonrpc, JStr(S_version) >>, << K_id, JNum(1) >>,
            << K_result, JStr(S_three) >> >>),
    JObj(<< << K_jsonrpc, JStr(S_version) >>, << K_id, JStr(S_401) >>,
            << K_result, JStr(S_three) >>, << S_extra, JArr(<< JNum(1), JNull >>) >> >>),
    JObj(<< << K_jsonrpc, JStr(S_version) >>, << K_id, JStr(S_401) >>,
            << K_result, JStr(S_three) >>, << K_result, JStr(S_four) >> >>),
    JObj(<< << K_jsonrpc, JStr(S_version) >>, << K_id, JStr(S_401) >> >>),
    JArr(<< JStr(S_401), JStr(S_version), JStr(S_three) >>) }

\* Error envelopes whose fault is { code, message } with data absent, null
\* or a map of strings.
FaultDocs ==
  { ErrorDoc(S_311, Fault(-32602, S_invalid)),
    ErrorDoc(S_311, Fault(3, S_quoted)),
    ErrorDoc(S_311, FaultWith(-32000, S_reverted, JNull)),
    ErrorDoc(S_311, FaultWith(-32000, S_reverted, JObj(<< << S_reason, JStr(S_x) >> >>))),
    JObj(<< << K_jsonrpc, JStr(S_version) >>, << K_id, JStr(S_311) >>, << K_result, JNull >>,
            << K_error, Fault(-32602, S_invalid) >> >>) }

\* Envelopes with a member "error" that is not such a fault.
OddFaultDocs ==
  { ErrorDoc(S_311, FaultWith(3, S_reverted, JStr(S_revertData))),
    ErrorDoc(S_311, JStr(S_boom)),
    ErrorDoc(S_311, JObj(<< << K_code, JNum(1) >> >>)) }

Docs == SuccessDocs \cup OddSuccessDocs \cup FaultDocs \cup OddFaultDocs

\* The documents a server also writes in the styles "spaced" and "escaped".
StyledDocs ==
  { SuccessDoc(S_401, JStr(S_three)), SuccessDoc(S_401, JStr(S_hex)),
    ErrorDoc(S_311, Fault(-32602, S_invalid)),
    ErrorDoc(S_311, FaultWith(-32000, S_reverted, JObj(<< << S_reason, JStr(S_x) >> >>))) }

\* The bodies cut short are the two documents of the end-to-end scenarios.
CutDocs == { SuccessDoc(S_401, JStr(S_three)), ErrorDoc(S_311, Fault(-32602, S_invalid)) }

\* A body cut short loses up to MaxCut characters at its end.
MaxCut == 6

\* A response body: the text, and the document it is the encoding of
\* (JNone when it is the complete encoding of none).
WrittenBodies ==
  { [doc |-> d, text |-> Serialize(d, "compact")] : d \in Docs }
  \cup { [doc |-> d, text |-> Serialize(d, st)] : d \in StyledDocs, st \in {"spaced", "escaped"} }

BrokenBodies ==
  { [doc |-> JNone, text |-> SubSeq(Serialize(d, "compact"), 1, Len(Serialize(d, "compact")) - k)] :
      d \in CutDocs, k \in 1..MaxCut }
  \cup { [doc |-> JNone, text |-> t] :
           t \in { << >>, S_html, K_error,
                   Serialize(SuccessDoc(S_401, JStr(S_three)), "compact") \o S_x,
                   Serialize(ErrorDoc(S_311, Fault(-32602, S_invalid)), "compact") \o S_x } }

Bodies == WrittenBodies \cup BrokenBodies

\* The status codes a server answers with.
Statuses == { 200, 201, 204, 304, 400, 401, 404, 500, 503 }

(***************************************************************************)
(* Results.  A call ends in Ok(value) or in Err(report).  A report is the  *)
(* Error it was changed to (kind; message the String of JsonRpcError;      *)
(* status the StatusCode of HttpError), the printable attached to it, and  *)
(* the error it was made from (cause), with the status line that error or  *)
(* the attachment prints and, for serde_path_to_error, the tracked path.   *)
(***************************************************************************)

NoStatus == [code |-> 0, reason |-> ""]

Ok(text, val) ==
  [ok |-> TRUE, text |-> text, val |-> val, kind |-> "none", message |-> << >>,
   status |-> 0, attachment |-> "none", cause |-> "none", printed |-> NoStatus,
   path |-> << >>]

Err(kind, message, status, attachment, cause, printed, path) ==
  [ok |-> FALSE, text |-> << >>, val |-> JNull, kind |-> kind, message |-> message,
   status |-> status, attachment |-> attachment, cause |-> cause, printed |-> printed,
   path |-> path]

NoResult == Ok(<< >>, JNull)

\* StatusCode::canonical_reason, which Display for StatusCode prints after
\* the number.
CanonicalReason(s) ==
  CASE s = 200 -> "OK"
    [] s = 201 -> "Created"
    [] s = 204 -> "No Content"
    [] s = 304 -> "Not Modified"
    [] s = 400 -> "Bad Request"
    [] s = 401 -> "Unauthorized"
    [] s = 404 -> "Not Found"
    [] s = 500 -> "Internal Server Error"
    [] s = 503 -> "Service Unavailable"
    [] OTHER   -> "<unknown status code>"

StatusLine(s) == [code |-> s, reason |-> CanonicalReason(s)]

\* Response::error_for_status is an error for the client and server error
\* statuses, 400..599.
IsErrorStatus(s) == s >= 400 /\ s <= 599

\* A sniff for the member key only: "error" between its quotes.
SniffQuoted(text) == Contains(text, << "\"" >> \o K_error \o << "\"" >>)

\* text.find("error") != None.
Sniff(text) == Contains(text, K_error)

\* A handler that takes every body with "error" in it for a fault, parsed
\* or not.
ErrorEnvelopeLenient(e) ==
  Err("JsonRpcError", IF e.ok THEN e.val.v[1].v[2].v ELSE << >>, 0, "none", "none",
      NoStatus, << >>)

\* What the handler makes of e, the body parsed as a
\* JsonRpcError<HashMap<String, String>>: Err(JsonRpcError(e.error.message)),
\* or Err(UnexpectedResponseFormat) when it did not parse.
ErrorEnvelope(e) ==
  IF e.ok
  THEN Err("JsonRpcError", e.val.v[1].v[2].v, 0, "none", "none", NoStatus, << >>)
  ELSE Err("UnexpectedResponseFormat", << >>, 0, "unexpected err format", "serde_json",
           NoStatus, << >>)

\* The arm of the handler for StatusCode::OK; readOk tells whether
\* response.text() gave the body.
HandleOk(text, readOk) ==
  IF ~readOk
  THEN [result |-> Err("UnexpectedResponseFormat", << >>, 0, "response not text",
                       "reqwest body", NoStatus, << >>),
        bodyRead |-> TRUE, jsonParsed |-> FALSE]
  ELSE IF Sniff(text)
  THEN [result |-> ErrorEnvelope(FromStr("JsonRpcError<HashMap<String,String>>", text)),
        bodyRead |-> TRUE, jsonParsed |-> TRUE]
  ELSE [result |-> Ok(text, JNull), bodyRead |-> TRUE, jsonParsed |-> FALSE]

\* A handler arm that forgets which status it saw: the error it returns
\* does not tell one status from another.
HandleStatusUnnamed(s) ==
  [result |-> Err("UnexpectedResponseFormat", << >>, 0, "status", "none", NoStatus, << >>),
   bodyRead |-> FALSE, jsonParsed |-> FALSE]

\* The arm of the handler for every other status s.
HandleStatus(s) ==
  [result |-> IF IsErrorStatus(s)
              THEN Err("HttpError", << >>, s, "none", "reqwest status", StatusLine(s), << >>)
              ELSE Err("UnexpectedResponseFormat", << >>, 0, "status", "none",
                       StatusLine(s), << >>),
   bodyRead |-> FALSE, jsonParsed |-> FALSE]

\* A handler that sniffs the body for "error" before it looks at the status.
HandlerSniffFirst(s, text, readOk) ==
  IF s = 200 \/ (readOk /\ Sniff(text)) THEN HandleOk(text, readOk) ELSE HandleStatus(s)

\* A handler that reads the body as text before it looks at the status.
HandlerReadsFirst(s, text, readOk) ==
  IF s = 200 \/ ~readOk THEN HandleOk(text, readOk)
  ELSE [HandleStatus(s) EXCEPT !.bodyRead = TRUE]

\* Client::handler: the result, and whether the body was read as text and
\* whether it was parsed as JSON on the way.
Handler(s, text, readOk) == IF s = 200 THEN HandleOk(text, readOk) ELSE HandleStatus(s)

\* Web3::parse_json::<JsonRpcResult<T>>(text).
Entity(text, r) ==
  IF r.ok THEN Ok(text, r.val)
  ELSE Err("FailedToDeserialize", << >>, 0, "none", "serde_path_to_error", NoStatus, r.path)

\* A wrapper that parses every result as a String, whatever its own T.
ParseJsonAsString(rtype, text) ==
  Entity(text, PathToErrorDeserialize(EnvelopeType("String"), text))

ParseJson(rtype, text) == Entity(text, PathToErrorDeserialize(EnvelopeType(rtype), text))

\* Where a call stands once post has returned r: the ? of the wrapper
\* returns an Err at once, an Ok goes on to parse_json.
AfterPost(r) == IF r.ok THEN "success" ELSE "done"

\* A wrapper that unwraps what parse_json returns instead of passing the
\* Err on.
AfterParseUnwrap(r) == IF r.ok THEN "done" ELSE "panicked"

\* Where a call stands once parse_json has returned r: the wrapper returns
\* Ok(r) or, by its ?, the Err.
AfterParse(r) == "done"

\* A post that sends the request again when the send failed.
SendRetried(n) == [pc |-> "sent", posts |-> n + 1, result |-> NoResult]

\* What a failed send leaves of the call: the Err(IoError) that post
\* returns by its ?, with the one POST made.
SendFailed(n) ==
  [pc |-> "done", posts |-> n,
   result |-> Err("IoError", << >>, 0, "none", "reqwest send", NoStatus, << >>)]

(***************************************************************************)
(* The state of one caller: calls are made one after another.              *)
(***************************************************************************)

VARIABLES
  pc,          \* "idle", "sent", "classifying", "success" or "done"
  wrapper,     \* the name of the wrapper being called, or "none"
  args,        \* its arguments, until the request is gone
  wire,        \* the body of the request on the wire
  posts,       \* the HTTP POSTs made for this call
  status,      \* the status code of the response, 0 before it
  body,        \* the body of the response
  served,      \* the document body is the encoding of, or JNone
  post,        \* what the handler returned and did: its result, whether
               \* response.text() was called (bodyRead) and whether
               \* serde_json::from_str was called on the text (jsonParsed)
  decoded,     \* parse_json was called
  result       \* what the wrapper returns, once pc = "done"

vars == << pc, wrapper, args, wire, posts, status, body, served, post, decoded, result >>

NoPost == [result |-> NoResult, bodyRead |-> FALSE, jsonParsed |-> FALSE]

Init ==
  /\ pc = "idle"
  /\ wrapper = "none"
  /\ args = << >>
  /\ wire = << >>
  /\ posts = 0
  /\ status = 0
  /\ body = << >>
  /\ served = JNone
  /\ post = NoPost
  /\ decoded = FALSE
  /\ result = NoResult

\* A wrapper is called: it builds its payload and post sends it.
Call(name, a, order) ==
  /\ pc = "idle"
  /\ pc' = "sent"
  /\ wrapper' = name
  /\ args' = a
  /\ wire' = WireBody(Payload(W(name), a), order)
  /\ posts' = posts + 1
  /\ UNCHANGED << status, body, served, post, decoded, result >>

\* send() fails: no response.
SendFailure ==
  /\ pc = "sent"
  /\ pc' = SendFailed(posts).pc
  /\ posts' = SendFailed(posts).posts
  /\ result' = SendFailed(posts).result
  /\ args' = << >>
  /\ wire' = << >>
  /\ UNCHANGED << wrapper, status, body, served, post, decoded >>

\* send() gives the response of the server.
Receive(s, b) ==
  /\ pc = "sent"
  /\ pc' = "classifying"
  /\ status' = s
  /\ body' = b.text
  /\ served' = b.doc
  /\ args' = << >>
  /\ wire' = << >>
  /\ UNCHANGED << wrapper, posts, post, decoded, result >>

\* Client::handler classifies the response and post returns.
Handle(readOk) ==
  /\ pc = "classifying"
  /\ post' = Handler(status, body, readOk)
  /\ result' = post'.result
  /\ pc' = AfterPost(post'.result)
  /\ UNCHANGED << wrapper, args, wire, posts, status, body, served, decoded >>

\* The wrapper decodes the text post returned, and returns.
Decode ==
  /\ pc = "success"
  /\ result' = ParseJson(W(wrapper).rtype, post.result.text)
  /\ pc' = AfterParse(result')
  /\ decoded' = TRUE
  /\ UNCHANGED << wrapper, args, wire, posts, status, body, served, post >>

\* The caller has the result; the next call may start.
Return ==
  /\ pc = "done"
  /\ pc' = "idle"
  /\ wrapper' = "none"
  /\ posts' = 0
  /\ status' = 0
  /\ body' = << >>
  /\ served' = JNone
  /\ post' = NoPost
  /\ decoded' = FALSE
  /\ result' = NoResult
  /\ UNCHANGED << args, wire >>

Next ==
  \/ \E name \in Callable : \E a \in ArgLists(W(name).args) : \E order \in KeyOrders :
       Call(name, a, order)
  \/ SendFailure
  \/ \E s \in Statuses : \E b \in Bodies : Receive(s, b)
  \/ \E readOk \in BOOLEAN : Handle(readOk)
  \/ Decode
  \/ Return

Spec == Init /\ [][Next]_vars

(***************************************************************************)
(* Properties.                                                             *)
(***************************************************************************)

\* The value of member key of the JSON object doc.
Member(doc, key) == doc.v[CHOOSE k \in 1..Len(doc.v) : doc.v[k][1] = key][2]

\* post has returned for a response whose body text it received.
PostReturned == pc \in {"success", "done"} /\ status # 0

BodyReceived == post.result.attachment # "response not text"

\* C1: for every HTTP 200 response whose body is an envelope with a valid
\* error object { code, message } (data absent, null or a map of strings),
\* post returns Err(JsonRpcError(m)) with m the message of that object,
\* never Ok and never another kind of error.
C1_FaultIsJsonRpcError ==
  (PostReturned /\ status = 200 /\ BodyReceived /\ served \in FaultDocs)
    => /\ ~post.result.ok
       /\ post.result.kind = "JsonRpcError"
       /\ post.result.message = Member(Member(served, K_error), K_message).v

\* The classes of what post returns for a response.
IsSuccess(r)          == r.ok
IsApplicationError(r) == ~r.ok /\ r.kind = "JsonRpcError"
IsTransportError(r)   ==
  ~r.ok /\ (r.kind = "HttpError" \/ (r.kind = "UnexpectedResponseFormat" /\ r.attachment = "status"))
IsDecodeFailure(r)    ==
  ~r.ok /\ r.kind = "UnexpectedResponseFormat"
        /\ r.attachment \in {"response not text", "unexpected err format"}

\* C2: for every status other than 200 post returns an error that names
\* the status: HttpError(status) for 400..599 and UnexpectedResponseFormat
\* with the attachment "status <status>" for the others; the status line in
\* the report carries the number, and for 500, 503, 401 and 400 the labels
\* Internal Server Error, Service Unavailable, Unauthorized and Bad Request.
C2_StatusErrorNamesStatus ==
  (PostReturned /\ status # 200)
    => /\ pc = "done"
       /\ IsTransportError(post.result)
       /\ post.result.printed.code = status
       /\ (post.result.kind = "HttpError" => post.result.status = status)
       /\ (status = 500 => post.result.printed.reason = "Internal Server Error")
       /\ (status = 503 => post.result.printed.reason = "Service Unavailable")
       /\ (status = 401 => post.result.printed.reason = "Unauthorized")
       /\ (status = 400 => post.result.printed.reason = "Bad Request")
       /\ result = post.result

C2_Witness ==
  /\ pc = "done" /\ status = 401 /\ body = << >>
  /\ post.result.kind = "HttpError" /\ post.result.printed.reason = "Unauthorized"

\* The JSON value v is of the Rust type rtype.
OfType(rtype, v) ==
  CASE rtype = "String"      -> v.t = "str"
    [] rtype = "bool"        -> v.t = "bool"
    [] rtype = "i64"         -> v.t = "num"
    [] rtype = "Vec<String>" -> v.t = "arr" /\ \A k \in 1..Len(v.v) : v.v[k].t = "str"

\* C3: for an HTTP 200 response whose body is a success envelope
\* { jsonrpc, id, result } with a result of the type the wrapper expects,
\* and whose text does not contain "error", the wrapper returns Ok with the
\* envelope whose id, jsonrpc and result are those of the body.
C3_SuccessDecodesUnchanged ==
  (pc = "done" /\ status = 200 /\ BodyReceived /\ served \in SuccessDocs
     /\ OfType(W(wrapper).rtype, Member(served, K_result)) /\ ~Contains(body, K_error))
    => /\ decoded
       /\ result.ok
       /\ result.val = JStruct(<< Member(served, K_id), Member(served, K_jsonrpc),
                                  Member(served, K_result) >>)

C3_Witness ==
  /\ pc = "done" /\ wrapper = "net_version" /\ status = 200
  /\ body = Serialize(SuccessDoc(S_401, JStr(S_three)), "compact")
  /\ result.ok /\ result.val.v[3] = JStr(S_three)

\* C4 as stated: every response whose body is received is classified into
\* exactly one of Success, ApplicationError and TransportError.
C4_ExactlyOneOfThree ==
  (PostReturned /\ BodyReceived)
    => /\ IsSuccess(post.result) \/ IsApplicationError(post.result)
          \/ IsTransportError(post.result)
       /\ ~(IsTransportError(post.result) /\ IsApplicationError(post.result))

\* C4, amended: every response is classified into exactly one of Success,
\* ApplicationError, TransportError and DecodeFailure; it is a
\* TransportError exactly when the status is not 200, and never both a
\* TransportError and an ApplicationError.
C4_ExactlyOneOfFour ==
  PostReturned
    => /\ Cardinality({ c \in {"Success", "ApplicationError", "TransportError", "DecodeFailure"} :
                          \/ c = "Success" /\ IsSuccess(post.result)
                          \/ c = "ApplicationError" /\ IsApplicationError(post.result)
                          \/ c = "TransportError" /\ IsTransportError(post.result)
                          \/ c = "DecodeFailure" /\ IsDecodeFailure(post.result) }) = 1
       /\ IsTransportError(post.result) <=> status # 200
       /\ ~(IsTransportError(post.result) /\ IsApplicationError(post.result))

C4_Witness ==
  /\ pc = "done" /\ status = 200 /\ body = K_error /\ IsDecodeFailure(post.result)
  /\ post.result.attachment = "unexpected err format"

\* C5 as stated: an HTTP 200 body that contains "error" and is no error
\* envelope gives a failure that is not JsonRpcError and carries the JSON
\* field path that failed to parse.
C5_SniffedFailureCarriesPath ==
  (PostReturned /\ status = 200 /\ BodyReceived /\ Contains(body, K_error)
     /\ served \notin FaultDocs)
    => /\ post.result.kind # "JsonRpcError"
       /\ post.result.cause = "serde_path_to_error"
       /\ post.result.path # << >>

\* C5, amended: such a body gives Err(UnexpectedResponseFormat), not
\* JsonRpcError, with the attachment "unexpected err format" over the
\* error of serde_json::from_str, which carries no field path.
C5_SniffedFailureIsUnexpectedFormat ==
  (PostReturned /\ status = 200 /\ BodyReceived /\ Contains(body, K_error)
     /\ served \notin FaultDocs)
    => /\ pc = "done"
       /\ ~post.result.ok
       /\ post.result.kind = "UnexpectedResponseFormat"
       /\ post.result.attachment = "unexpected err format"
       /\ post.result.cause = "serde_json"
       /\ post.result.path = << >>
       /\ post.jsonParsed
       /\ result = post.result

C5_Witness ==
  /\ pc = "done" /\ status = 200
  /\ served = ErrorDoc(S_311, FaultWith(3, S_reverted, JStr(S_revertData)))
  /\ post.result.kind = "UnexpectedResponseFormat"
  /\ post.result.attachment = "unexpected err format"

\* C6: for every status other than 200 the handler returns without reading
\* the body as text and without parsing it as JSON, the wrapper does not
\* decode, and what is returned is the same whatever the body is.
C6_StatusErrorIgnoresBody ==
  (PostReturned /\ status # 200)
    => /\ ~post.bodyRead
       /\ ~post.jsonParsed
       /\ ~decoded
       /\ \A b \in Bodies, readOk \in BOOLEAN : Handler(status, b.text, readOk) = post

C6_Witness ==
  /\ pc = "done" /\ status = 503
  /\ served = ErrorDoc(S_311, Fault(-32602, S_invalid)) /\ Contains(body, K_error)
  /\ post.result.kind = "HttpError" /\ ~post.bodyRead /\ ~post.jsonParsed

\* The steps of the lifecycle of a call.
Lifecycle ==
  { << "idle", "sent" >>, << "sent", "classifying" >>, << "sent", "done" >>,
    << "classifying", "success" >>, << "classifying", "done" >>,
    << "success", "done" >>, << "done", "idle" >> }

\* The steps of a call that the claim C7 is about, with classes the set of
\* the outcomes of the classification: every step is one of the lifecycle,
\* the POST is made when the call starts and none after it, a failed send
\* ends the call with IoError, the classification ends in one of classes,
\* every outcome but Success ends the call, and the decode step is taken
\* from Success only, on the text that post returned.
LifecycleStep(classes) ==
  /\ << pc, pc' >> \in Lifecycle
  /\ posts' = IF pc = "idle" THEN posts + 1 ELSE IF pc = "done" THEN 0 ELSE posts
  /\ posts' <= 1
  /\ pc' # "idle" => posts' = 1
  /\ (pc = "sent" /\ pc' = "done") => (~result'.ok /\ result'.kind = "IoError")
  /\ (pc = "classifying")
       => /\ \/ "Success" \in classes /\ IsSuccess(post'.result)
             \/ "ApplicationError" \in classes /\ IsApplicationError(post'.result)
             \/ "TransportError" \in classes /\ IsTransportError(post'.result)
             \/ "DecodeFailure" \in classes /\ IsDecodeFailure(post'.result)
          /\ pc' = "success" <=> IsSuccess(post'.result)
          /\ pc' = "done" => result' = post'.result
  /\ decoded' => (pc = "success" /\ IsSuccess(post.result) /\ post' = post)
  /\ (pc = "success") => decoded'

\* C7 as stated: a call makes exactly one POST and moves Sent ->
\* Classifying -> { Success, ApplicationError, TransportError }, Success ->
\* { Decoded, DecodeFailed }; every outcome is terminal, no failure makes a
\* second POST, and the decode step runs only after Success.
C7_ThreeOutcomeLifecycle ==
  [][LifecycleStep({"Success", "ApplicationError", "TransportError"})]_vars

\* C7, amended: a call makes exactly one POST and moves Sent ->
\* Classifying -> { Success, ApplicationError, TransportError,
\* DecodeFailure }, Success -> { Decoded, DecodeFailed }, where DecodeFailure
\* is the UnexpectedResponseFormat of a body of a 200 response that could
\* not be read or holds "error" and is no error envelope; every outcome is
\* terminal, no failure makes a second POST, and the decode step runs only
\* after Success.
C7_OnePostOneLifecycle ==
  [][LifecycleStep({"Success", "ApplicationError", "TransportError", "DecodeFailure"})]_vars

C7_Witness ==
  /\ pc = "done" /\ posts = 1 /\ decoded /\ IsSuccess(post.result)
  /\ ~result.ok /\ result.kind = "FailedToDeserialize"

ErrorKinds ==
  { "JsonRpcError", "IoError", "HttpError", "UnexpectedResponseFormat", "FailedToDeserialize" }

\* C8: no input makes a call panic: a call is always at a step of its
\* lifecycle, the step that is pending leads to another one of them
\* whatever the response is, and a call that is done has returned a typed
\* value or an Error.
C8_NoPanic ==
  /\ pc \in {"idle", "sent", "classifying", "success", "done"}
  /\ pc = "classifying"
       => \A readOk \in BOOLEAN :
            AfterPost(Handler(status, body, readOk).result) \in {"success", "done"}
  /\ pc = "success"
       => AfterParse(ParseJson(W(wrapper).rtype, post.result.text)) = "done"
  /\ pc = "done" => \/ result.ok /\ decoded /\ result.val.t = "struct"
                    \/ ~result.ok /\ result.kind \in ErrorKinds

C8_Witness ==
  /\ pc = "done" /\ status = 200 /\ served = JNone /\ body = << "<", "h", "t", "m", "l", ">" >>
  /\ decoded /\ ~result.ok /\ result.kind = "FailedToDeserialize"

\* C9 as stated: a body that parse_json fails to read as the envelope gives
\* FailedToDeserialize with a non-empty field path.
C9_DecodeFailureNamesField ==
  (pc = "done" /\ decoded /\ ~result.ok)
    => /\ result.kind = "FailedToDeserialize"
       /\ result.path # << >>

\* C9, amended: such a body gives FailedToDeserialize over the error of
\* serde_path_to_error; its path starts at the field result when the body
\* is a well-formed envelope whose result is not of the expected type, and
\* is the empty path of the root when the body is not a JSON document or
\* when the field result is missing.
C9_DecodeFailurePathOrRoot ==
  (pc = "done" /\ decoded /\ ~result.ok)
    => /\ result.kind = "FailedToDeserialize"
       /\ result.cause = "serde_path_to_error"
       /\ served \in SuccessDocs
            => /\ ~OfType(W(wrapper).rtype, Member(served, K_result))
               /\ result.path # << >>
               /\ result.path[1] = K_result
       /\ (served = JNone /\ (body = << >> \/ Head(body) \notin {"{", "["}))
            => result.path = << >>
       /\ (served.t = "obj" /\ \A k \in 1..Len(served.v) : served.v[k][1] # K_result)
            => result.path = << >>

C9_Witness ==
  /\ pc = "done" /\ wrapper = "eth_accounts" /\ decoded
  /\ served = SuccessDoc(S_401, JArr(<< JStr(S_addr), JNum(5) >>))
  /\ result.kind = "FailedToDeserialize"
  /\ result.path = << K_result, Idx(1) >>

\* The JSON value of an argument of a call.
ParamOf(a) ==
  CASE a.t = "str"   -> JStr(a.v)
    [] a.t = "tag"   -> JStr(S_latest)
    [] a.t = "bool"  -> JBool(a.v)
    [] a.t = "value" -> a.v

\* The document d read from the wire has exactly the keys jsonrpc, method,
\* params and id, with jsonrpc "2.0", the method and the id of wrapper w as
\* strings and an array as params.
FourKeys(d, w) ==
  /\ d.ok
  /\ d.val.t = "obj"
  /\ Len(d.val.v) = 4
  /\ { d.val.v[k][1] : k \in 1..4 } = { K_jsonrpc, K_method, K_params, K_id }
  /\ Member(d.val, K_jsonrpc) = JStr(S_version)
  /\ Member(d.val, K_method) = JStr(w.method)
  /\ Member(d.val, K_id) = JStr(w.id)
  /\ Member(d.val, K_params).t = "arr"

Positional(d, a) ==
  Member(d.val, K_params).v = [k \in 1..Len(a) |-> ParamOf(a[k])]

GetBalance(d, name, a) ==
  name = "eth_get_balance"
    => /\ Member(d.val, K_method) = JStr(<< "e","t","h","_","g","e","t","B","a","l","a","n","c","e" >>)
       /\ Member(d.val, K_params).v = << JStr(a[1].v), JStr(<< "l","a","t","e","s","t" >>) >>
       /\ Member(d.val, K_id) = JStr(<< "3", "1", "1" >>)

\* The one element of params of eth_send_transaction: an object of the six
\* arguments.
TransactionObject(d, a) ==
  LET ps == Member(d.val, K_params).v
  IN /\ Len(ps) = 1
     /\ ps[1].t = "obj"
     /\ Len(ps[1].v) = 6
     /\ Member(ps[1], K_from) = JStr(a[1].v)
     /\ Member(ps[1], K_to) = JStr(a[2].v)
     /\ Member(ps[1], K_gas) = JStr(a[3].v)
     /\ Member(ps[1], K_gasPrice) = JStr(a[4].v)
     /\ Member(ps[1], K_value) = JStr(a[5].v)
     /\ Member(ps[1], K_data) = JStr(a[6].v)

\* C10 as stated: the request of every wrapper has exactly the four keys,
\* jsonrpc "2.0", a string id, and as params the array of the arguments of
\* the caller in their order.
C10_RequestIsArgumentsInOrder ==
  pc = "sent"
    => /\ FourKeys(FromStr("Value", wire), W(wrapper))
       /\ Positional(FromStr("Value", wire), args)

\* C10, amended: the request of every wrapper has exactly the four keys,
\* jsonrpc "2.0" and a string id; params is the array of the arguments of
\* the caller in their order (a block tag as its name, "latest" when none
\* is given), except for eth_send_transaction, whose params is one object
\* with its six arguments as from, to, gas, gasPrice, value and data;
\* eth_get_balance(address, Some(Latest)) sends method "eth_getBalance",
\* params [address, "latest"] and id "311".
C10_RequestShape ==
  pc = "sent"
    => /\ FourKeys(FromStr("Value", wire), W(wrapper))
       /\ GetBalance(FromStr("Value", wire), wrapper, args)
       /\ IF wrapper = "eth_send_transaction"
          THEN TransactionObject(FromStr("Value", wire), args)
          ELSE Positional(FromStr("Value", wire), args)

C10_Witness ==
  /\ pc = "sent" /\ wrapper = "eth_get_balance"
  /\ args = << [t |-> "str", v |-> S_addr], [t |-> "tag", v |-> "Latest"] >>
  /\ wire = <<"{","\"","j","s","o","n","r","p","c","\"",":","\"","2",".","0","\"",",","\"","m","e","t","h","o","d","\"",":","\"","e","t","h","_","g","e","t","B","a","l","a","n","c","e","\"",",","\"","p","a","r","a","m","s","\"",":","[","\"","0","x","a","b","c","\"",",","\"","l","a","t","e","s","t","\"","]",",","\"","i","d","\"",":","\"","3","1","1","\"","}">>

\* C11: post returns Ok(text) if and only if the status is 200 and the
\* body text received holds no "error" anywhere, and then text is the body
\* unchanged; so a success envelope whose text holds "error" in its result
\* is not returned as a success: it ends as JsonRpcError or as
\* UnexpectedResponseFormat.
C11_OkIffNoErrorText ==
  (PostReturned /\ BodyReceived)
    => /\ post.result.ok <=> (status = 200 /\ ~Contains(body, K_error))
       /\ post.result.ok => post.result.text = body
       /\ (status = 200 /\ served \in SuccessDocs /\ Contains(body, K_error))
            => /\ ~post.result.ok
               /\ post.result.kind \in {"JsonRpcError", "UnexpectedResponseFormat"}
               /\ pc = "done" /\ ~decoded /\ result = post.result

C11_Witness ==
  /\ pc = "done" /\ status = 200 /\ wrapper = "net_version"
  /\ served = SuccessDoc(S_401, JStr(K_error))
  /\ body = Serialize(served, "compact")
  /\ ~result.ok /\ result.kind = "UnexpectedResponseFormat"

LowerCase ==
  << "a","b","c","d","e","f","g","h","i","j","k","l","m",
     "n","o","p","q","r","s","t","u","v","w","x","y","z" >>

UpperCase ==
  << "A","B","C","D","E","F","G","H","I","J","K","L","M",
     "N","O","P","Q","R","S","T","U","V","W","X","Y","Z" >>

Upper(c) ==
  IF \E k \in 1..26 : LowerCase[k] = c
  THEN UpperCase[CHOOSE k \in 1..26 : LowerCase[k] = c]
  ELSE c

\* The words of s after the first, each with its first letter a capital and
\* the underscores between them left out.
RECURSIVE CamelCase(_, _)
CamelCase(s, capital) ==
  IF s = << >> THEN << >>
  ELSE IF Head(s) = "_" THEN CamelCase(Tail(s), TRUE)
  ELSE << IF capital THEN Upper(Head(s)) ELSE Head(s) >> \o CamelCase(Tail(s), FALSE)

\* The JSON-RPC method a wrapper function is named after: the namespace and
\* its underscore, then the rest of the identifier in camel case
\* (eth_get_balance is eth_getBalance, net_version is net_version).
MethodOf(ident) ==
  LET k == CHOOSE j \in 1..Len(ident) :
             ident[j] = "_" /\ \A h \in 1..(j - 1) : ident[h] # "_"
  IN SubSeq(ident, 1, k) \o CamelCase(SubSeq(ident, k + 1, Len(ident)), FALSE)

\* The request on the wire carries the method the wrapper is named after,
\* and no other wrapper of impl Web3 sends that method or that id.
OwnMethodAndId(d, name) ==
  /\ d.ok
  /\ Member(d.val, K_method) = JStr(MethodOf(FnName(name)))
  /\ \A n \in WrapperNames \ { name } :
       /\ JStr(W(n).method) # Member(d.val, K_method)
       /\ JStr(W(n).id) # Member(d.val, K_id)

\* C12: every wrapper sends the method whose name corresponds to it
\* (web3_client_version sends "web3_clientVersion", net_version sends
\* "net_version", eth_get_balance sends "eth_getBalance"), no two wrappers
\* send the same method, and no two wrappers use the same id.
C12_MethodAndIdOfWrapper ==
  pc = "sent" => OwnMethodAndId(FromStr("Value", wire), wrapper)

=============================================================================
